---- MODULE Spec2Model ----
(***************************************************************************)
(* Model of combine.py: the extraction of every revision of beer.json     *)
(* from the history of a git repository into beer_versions.jsonl.         *)
(*                                                                         *)
(* Texts (blobs, the output file, hashes) are sequences of byte values.   *)
(* JSON values are records [t, n, s, kv]: t is "int", "str" or "obj", n   *)
(* the integer, s the string's bytes, kv the members of an object in      *)
(* insertion order, each [k |-> key bytes, v |-> value].                  *)
(***************************************************************************)
EXTENDS Integers, Sequences, FiniteSets, TLC

\* ---------------------------------------------------------------- bounds
MaxHistory == 3      \* commits in the repository's (linear) history
MaxRuns == 3         \* runs of the program against the same repository

\* ------------------------------------------------------------- constants
\* JSON_FILENAME = "beer.json" is the one path followed; a tree is modelled
\* by the state of that path alone.
KeyCommit == <<99, 111, 109, 109, 105, 116>>                     \* "commit"
KeyTimestamp == <<116, 105, 109, 101, 115, 116, 97, 109, 112>>   \* "timestamp"
KeyData == <<100, 97, 116, 97>>                                  \* "data"

\* ------------------------------------------------------------ JSON values
JInt(n) == [t |-> "int", n |-> n, s |-> <<>>, kv |-> <<>>]
JStr(s) == [t |-> "str", n |-> 0, s |-> s, kv |-> <<>>]
JObj(kv) == [t |-> "obj", n |-> 0, s |-> <<>>, kv |-> kv]
NoValue == [t |-> "none", n |-> 0, s |-> <<>>, kv |-> <<>>]

\* F applied to the value of x, x evaluated once (a local variable).
With(x, F(_)) == CHOOSE r \in {F(v) : v \in {x}} : TRUE

\* dict[k] = v: a repeated key keeps its position and takes the last value.
RECURSIVE DictSet(_, _, _)
DictSet(kv, k, v) ==
    IF kv = <<>> THEN << [k |-> k, v |-> v] >>
    ELSE IF Head(kv).k = k THEN << [k |-> k, v |-> v] >> \o Tail(kv)
    ELSE << Head(kv) >> \o DictSet(Tail(kv), k, v)

\* ------------------------------------------------- bytes.decode("utf-8")
\* One-byte (ASCII) and two-byte forms; any other lead byte, a stray
\* continuation byte or a truncated form raises UnicodeDecodeError.
RECURSIVE DecodeFrom(_, _, _)
DecodeFrom(b, i, acc) ==
    IF i > Len(b) THEN [ok |-> TRUE, text |-> acc]
    ELSE IF b[i] < 128 THEN DecodeFrom(b, i + 1, Append(acc, b[i]))
    ELSE IF b[i] \in 194..223 /\ i + 1 <= Len(b) /\ b[i + 1] \in 128..191
         THEN DecodeFrom(b, i + 2, Append(acc, (b[i] - 192) * 64 + (b[i + 1] - 128)))
    ELSE [ok |-> FALSE, text |-> <<>>]

Decode(b) == With(b, LAMBDA bytes : DecodeFrom(bytes, 1, <<>>))

\* ------------------------------------------------------------ json.loads
\* The grammar covered: whitespace, non-negative integers, strings without
\* escapes, objects.  A parse result is [ok, val, pos], pos the index after
\* the value.
ParseFail == [ok |-> FALSE, val |-> NoValue, pos |-> 0]

RECURSIVE SkipWs(_, _)
SkipWs(s, i) ==
    IF i <= Len(s) /\ s[i] \in {32, 9, 10, 13} THEN SkipWs(s, i + 1) ELSE i

RECURSIVE ParseDigits(_, _, _)
ParseDigits(s, i, acc) ==
    IF i <= Len(s) /\ s[i] \in 48..57
    THEN ParseDigits(s, i + 1, acc * 10 + (s[i] - 48))
    ELSE [ok |-> TRUE, val |-> JInt(acc), pos |-> i]

\* "0" or a digit 1-9 followed by digits: a leading zero ends the number.
ParseInt(s, i) ==
    IF s[i] = 48 THEN [ok |-> TRUE, val |-> JInt(0), pos |-> i + 1]
    ELSE ParseDigits(s, i, 0)

\* s[i] is the opening quote.
RECURSIVE ParseStringFrom(_, _, _)
ParseStringFrom(s, i, acc) ==
    IF i > Len(s) THEN ParseFail
    ELSE IF s[i] = 34 THEN [ok |-> TRUE, val |-> JStr(acc), pos |-> i + 1]
    ELSE IF s[i] < 32 \/ s[i] = 92 THEN ParseFail
    ELSE ParseStringFrom(s, i + 1, Append(acc, s[i]))

ParseString(s, i) == ParseStringFrom(s, i + 1, <<>>)

RECURSIVE ParseValue(_, _)
RECURSIVE ParseMembers(_, _, _)

\* k is the index of the member's key, after whitespace.
ParseMembers(s, k, acc) ==
    IF k > Len(s) \/ s[k] # 34 THEN ParseFail
    ELSE With(ParseString(s, k), LAMBDA key :
    IF ~key.ok THEN ParseFail
    ELSE With(SkipWs(s, key.pos), LAMBDA c :
    IF c > Len(s) \/ s[c] # 58 THEN ParseFail
    ELSE With(ParseValue(s, c + 1), LAMBDA v :
    IF ~v.ok THEN ParseFail
    ELSE With(SkipWs(s, v.pos), LAMBDA e :
         With(DictSet(acc, key.val.s, v.val), LAMBDA acc2 :
    IF e > Len(s) THEN ParseFail
    ELSE IF s[e] = 125 THEN [ok |-> TRUE, val |-> JObj(acc2), pos |-> e + 1]
    ELSE IF s[e] = 44 THEN With(SkipWs(s, e + 1), LAMBDA k2 : ParseMembers(s, k2, acc2))
    ELSE ParseFail)))))

\* s[i] is the opening brace.
ParseObject(s, i) ==
    With(SkipWs(s, i + 1), LAMBDA k :
    IF k <= Len(s) /\ s[k] = 125
    THEN [ok |-> TRUE, val |-> JObj(<<>>), pos |-> k + 1]
    ELSE ParseMembers(s, k, <<>>))

ParseValue(s, i) ==
    With(SkipWs(s, i), LAMBDA j :
    IF j > Len(s) THEN ParseFail
    ELSE IF s[j] = 123 THEN ParseObject(s, j)
    ELSE IF s[j] = 34 THEN ParseString(s, j)
    ELSE IF s[j] \in 48..57 THEN ParseInt(s, j)
    ELSE ParseFail)

\* json.loads(text): one value, then nothing but whitespace ("Extra data"
\* otherwise).
JsonLoads(text) ==
    With(text, LAMBDA t :
    With(ParseValue(t, 1), LAMBDA r :
    IF r.ok /\ SkipWs(t, r.pos) = Len(t) + 1
    THEN [ok |-> TRUE, val |-> r.val]
    ELSE [ok |-> FALSE, val |-> NoValue]))

\* ------------------------------------------------------------ json.dumps
RECURSIVE IntToBytes(_)
IntToBytes(n) ==
    IF n < 10 THEN << 48 + n >>
    ELSE IntToBytes(n \div 10) \o << 48 + (n % 10) >>

RECURSIVE Dumps(_)
RECURSIVE DumpMembers(_)

\* Members separated by ", ", key and value by ": " (the default separators).
DumpMembers(kv) ==
    IF kv = <<>> THEN <<>>
    ELSE <<34>> \o Head(kv).k \o <<34, 58, 32>> \o Dumps(Head(kv).v)
         \o (IF Tail(kv) = <<>> THEN <<>> ELSE <<44, 32>> \o DumpMembers(Tail(kv)))

Dumps(v) ==
    CASE v.t = "int" -> IntToBytes(v.n)
      [] v.t = "str" -> <<34>> \o v.s \o <<34>>
      [] v.t = "obj" -> <<123>> \o DumpMembers(v.kv) \o <<125>>


\* ------------------------------------------------------------ repository
\* The state of beer.json in a commit's tree snapshot.
Absent == [present |-> FALSE, bytes |-> <<>>]
Blob(b) == [present |-> TRUE, bytes |-> b]

BlobA1 == <<123, 34, 97, 34, 58, 49, 125>>      \* {"a":1}
BlobA2 == <<123, 34, 97, 34, 58, 50, 125>>      \* {"a":2}
BlobBadJson == <<123, 34, 97, 34, 58>>          \* {"a":
BlobBadUtf8 == <<123, 255, 125>>                \* not UTF-8

TreeStates == {Absent, Blob(BlobA1), Blob(BlobA2), Blob(BlobBadJson), Blob(BlobBadUtf8)}

\* A linear history, oldest commit first: h[i] is the tree of commit i.
Histories == UNION {[1..n -> TreeStates] : n \in 0..MaxHistory}

\* commit.hexsha (two hex digits here) and commit.committed_datetime.
Hash(i) == <<99, 48 + i>>
Commit(h, i) == [hexsha |-> Hash(i), committed_datetime |-> i, tree |-> h[i]]

\* datetime.isoformat()
IsoFormat(t) == <<84>> \o IntToBytes(t)

\* A commit affects the path when the path differs from its parent's.
Affects(h, i) == h[i] # (IF i = 1 THEN Absent ELSE h[i - 1])

RECURSIVE Walk(_, _)
Walk(h, i) ==
    IF i = 0 THEN <<>>
    ELSE (IF Affects(h, i) THEN << Commit(h, i) >> ELSE <<>>) \o Walk(h, i - 1)

\* Mutant of IterCommits: the walk reversed (oldest first).
RECURSIVE WalkUp(_, _)
WalkUp(h, i) ==
    IF i > Len(h) THEN <<>>
    ELSE (IF Affects(h, i) THEN << Commit(h, i) >> ELSE <<>>) \o WalkUp(h, i + 1)
IterCommitsOldestFirst(h) == WalkUp(h, 1)

\* list(repo.iter_commits(paths=JSON_FILENAME)): from the head backwards.
IterCommits(h) == Walk(h, Len(h))

\* Mutant of Extract: the decoded text kept as data, json.loads left out.
ExtractText(commit) ==
    IF ~commit.tree.present
    THEN [ok |-> FALSE, err |-> "KeyError", data |-> NoValue]
    ELSE With(Decode(commit.tree.bytes), LAMBDA file_contents :
    IF ~file_contents.ok
    THEN [ok |-> FALSE, err |-> "UnicodeDecodeError", data |-> NoValue]
    ELSE [ok |-> TRUE, err |-> "", data |-> JStr(file_contents.text)])

\* The try block: tree lookup, decode, parse.
Extract(commit) ==
    IF ~commit.tree.present
    THEN [ok |-> FALSE, err |-> "KeyError", data |-> NoValue]
    ELSE With(Decode(commit.tree.bytes), LAMBDA file_contents :
    IF ~file_contents.ok
    THEN [ok |-> FALSE, err |-> "UnicodeDecodeError", data |-> NoValue]
    ELSE With(JsonLoads(file_contents.text), LAMBDA data :
    IF ~data.ok
    THEN [ok |-> FALSE, err |-> "JSONDecodeError", data |-> NoValue]
    ELSE [ok |-> TRUE, err |-> "", data |-> data.val]))

Record(commit, data) ==
    JObj(<< [k |-> KeyCommit, v |-> JStr(commit.hexsha)],
            [k |-> KeyTimestamp, v |-> JStr(IsoFormat(commit.committed_datetime))],
            [k |-> KeyData, v |-> data] >>)

\* ---------------------------------------------------------------- stdout
Found(n) == [kind |-> "found", n |-> n, commit |-> <<>>, err |-> ""]
Skipping(hash, err) == [kind |-> "skipping", n |-> 0, commit |-> hash, err |-> err]
AllExtracted == [kind |-> "all", n |-> 0, commit |-> <<>>, err |-> ""]

\* A file left by an earlier, longer output: more lines than this
\* repository can yield.
RECURSIVE StaleLines(_)
StaleLines(n) == IF n = 0 THEN <<>> ELSE <<48, 10>> \o StaleLines(n - 1)
StaleFile == StaleLines(MaxHistory + 1)

\* ----------------------------------------------------------------- state
VARIABLES
    history,      \* the repository: trees of the commits, oldest first
    run,          \* number of the current run
    pc,           \* position of the run
    commits,      \* the list `commits`
    idx,          \* position of the for loop in `commits`
    processed,    \* values taken by commit_hash, in order
    file,         \* content of beer_versions.jsonl
    fileExists,   \* whether beer_versions.jsonl exists
    isOpen,       \* whether outfile is open
    stdout,       \* lines printed by the current run
    raised,       \* the uncaught-or-not error of the current run: its origin
    priorFile,    \* content of the file when the current run started
    priorExists,  \* existence of the file when the current run started
    outputs       \* content of the file at the end of each completed run

vars == << history, run, pc, commits, idx, processed, file, fileExists,
           isOpen, stdout, raised, priorFile, priorExists, outputs >>

Init ==
    /\ history \in Histories
    /\ run = 1
    /\ pc = "repo"
    /\ commits = <<>>
    /\ idx = 0
    /\ processed = <<>>
    /\ \/ fileExists = FALSE /\ file = <<>>
       \/ fileExists = TRUE /\ file = StaleFile
    /\ isOpen = FALSE
    /\ stdout = <<>>
    /\ raised = "none"
    /\ priorFile = file
    /\ priorExists = fileExists
    /\ outputs = <<>>

\* repo = Repo(LOCAL_DIR)
OpenRepo ==
    /\ pc = "repo"
    /\ pc' = "list"
    /\ UNCHANGED << history, run, commits, idx, processed, file, fileExists,
                    isOpen, stdout, raised, priorFile, priorExists, outputs >>

\* Mutant of OpenRepoFail: the output file opened before the repository.
OpenRepoFailAfterOpen ==
    /\ pc = "repo"
    /\ pc' = "aborted"
    /\ raised' = "repo"
    /\ file' = <<>>
    /\ fileExists' = TRUE
    /\ UNCHANGED << history, run, commits, idx, processed, isOpen, stdout,
                    priorFile, priorExists, outputs >>

\* Repo(LOCAL_DIR) raises: nothing after it runs.
OpenRepoFail ==
    /\ pc = "repo"
    /\ pc' = "aborted"
    /\ raised' = "repo"
    /\ UNCHANGED << history, run, commits, idx, processed, file, fileExists,
                    isOpen, stdout, priorFile, priorExists, outputs >>

\* Mutant of ListCommits: the count printed is that of all the commits.
ListCommitsAll ==
    /\ pc = "list"
    /\ commits' = IterCommits(history)
    /\ stdout' = Append(stdout, Found(Len(history)))
    /\ pc' = "open"
    /\ UNCHANGED << history, run, idx, processed, file, fileExists, isOpen,
                    raised, priorFile, priorExists, outputs >>

\* commits = list(...); print(f"Found {len(commits)} commits ...")
ListCommits ==
    /\ pc = "list"
    /\ commits' = IterCommits(history)
    /\ stdout' = Append(stdout, Found(Len(commits')))
    /\ pc' = "open"
    /\ UNCHANGED << history, run, idx, processed, file, fileExists, isOpen,
                    raised, priorFile, priorExists, outputs >>

\* Mutant of OpenOutput: mode "a", the content is kept.
OpenOutputAppend ==
    /\ pc = "open"
    /\ fileExists' = TRUE
    /\ isOpen' = TRUE
    /\ idx' = 1
    /\ pc' = "loop"
    /\ UNCHANGED << history, run, commits, processed, file, stdout, raised,
                    priorFile, priorExists, outputs >>

\* open(OUTPUT_FILE, "w"): creates or truncates.
OpenOutput ==
    /\ pc = "open"
    /\ file' = <<>>
    /\ fileExists' = TRUE
    /\ isOpen' = TRUE
    /\ idx' = 1
    /\ pc' = "loop"
    /\ UNCHANGED << history, run, commits, processed, stdout, raised,
                    priorFile, priorExists, outputs >>

\* open raises (permission denied, ...): the file is left as it was.
OpenOutputFail ==
    /\ pc = "open"
    /\ pc' = "aborted"
    /\ raised' = "open"
    /\ UNCHANGED << history, run, commits, idx, processed, file, fileExists,
                    isOpen, stdout, priorFile, priorExists, outputs >>

\* Mutant of SkipCommit: the handler prints nothing.
SkipCommitSilent ==
    /\ pc = "loop"
    /\ idx <= Len(commits)
    /\ LET commit == commits[idx] IN
       \E r \in {Extract(commit)} :
       /\ ~r.ok
       /\ processed' = Append(processed, commit.hexsha)
    /\ idx' = idx + 1
    /\ UNCHANGED << history, run, pc, commits, file, fileExists, isOpen,
                    stdout, raised, priorFile, priorExists, outputs >>

\* An iteration whose try block raises: print and continue.
SkipCommit ==
    /\ pc = "loop"
    /\ idx <= Len(commits)
    /\ LET commit == commits[idx] IN
       \E r \in {Extract(commit)} :
       /\ ~r.ok
       /\ processed' = Append(processed, commit.hexsha)
       /\ stdout' = Append(stdout, Skipping(commit.hexsha, r.err))
    /\ idx' = idx + 1
    /\ UNCHANGED << history, run, pc, commits, file, fileExists, isOpen,
                    raised, priorFile, priorExists, outputs >>

\* Mutant of WriteRecord: the "\n" left out.
WriteRecordNoNewline ==
    /\ pc = "loop"
    /\ idx <= Len(commits)
    /\ LET commit == commits[idx] IN
       \E r \in {Extract(commit)} :
       /\ r.ok
       /\ processed' = Append(processed, commit.hexsha)
       /\ file' = file \o Dumps(Record(commit, r.data))
    /\ idx' = idx + 1
    /\ UNCHANGED << history, run, pc, commits, fileExists, isOpen, stdout,
                    raised, priorFile, priorExists, outputs >>

\* Mutant of WriteRecord: the write replaces the content of the file.
WriteRecordRewrite ==
    /\ pc = "loop"
    /\ idx <= Len(commits)
    /\ LET commit == commits[idx] IN
       \E r \in {Extract(commit)} :
       /\ r.ok
       /\ processed' = Append(processed, commit.hexsha)
       /\ file' = Dumps(Record(commit, r.data)) \o <<10>>
    /\ idx' = idx + 1
    /\ UNCHANGED << history, run, pc, commits, fileExists, isOpen, stdout,
                    raised, priorFile, priorExists, outputs >>

\* An iteration whose try block succeeds and whose write succeeds.
WriteRecord ==
    /\ pc = "loop"
    /\ idx <= Len(commits)
    /\ LET commit == commits[idx] IN
       \E r \in {Extract(commit)} :
       /\ r.ok
       /\ processed' = Append(processed, commit.hexsha)
       /\ file' = file \o Dumps(Record(commit, r.data)) \o <<10>>
    /\ idx' = idx + 1
    /\ UNCHANGED << history, run, pc, commits, fileExists, isOpen, stdout,
                    raised, priorFile, priorExists, outputs >>

\* Mutant of WriteFail: the write inside the try block, its error handled
\* as a skip.
WriteFailCaught ==
    /\ pc = "loop"
    /\ idx <= Len(commits)
    /\ LET commit == commits[idx] IN
       \E r \in {Extract(commit)} :
       /\ r.ok
       /\ processed' = Append(processed, commit.hexsha)
       /\ stdout' = Append(stdout, Skipping(commit.hexsha, "OSError"))
    /\ raised' = "write"
    /\ idx' = idx + 1
    /\ UNCHANGED << history, run, pc, commits, file, fileExists, isOpen,
                    priorFile, priorExists, outputs >>

\* An iteration whose try block succeeds and whose write raises: the error
\* leaves the with block, which closes the file, and ends the run.
WriteFail ==
    /\ pc = "loop"
    /\ idx <= Len(commits)
    /\ LET commit == commits[idx] IN
       \E r \in {Extract(commit)} :
       /\ r.ok
       /\ processed' = Append(processed, commit.hexsha)
    /\ raised' = "write"
    /\ isOpen' = FALSE
    /\ pc' = "aborted"
    /\ UNCHANGED << history, run, commits, idx, file, fileExists, stdout,
                    priorFile, priorExists, outputs >>

\* Mutant of CloseOutput: the loop left one commit early.
CloseOutputEarly ==
    /\ pc = "loop"
    /\ idx >= Len(commits)
    /\ isOpen' = FALSE
    /\ pc' = "print"
    /\ UNCHANGED << history, run, commits, idx, processed, file, fileExists,
                    stdout, raised, priorFile, priorExists, outputs >>

\* The for loop is exhausted: the with block closes the file.
CloseOutput ==
    /\ pc = "loop"
    /\ idx > Len(commits)
    /\ isOpen' = FALSE
    /\ pc' = "print"
    /\ UNCHANGED << history, run, commits, idx, processed, file, fileExists,
                    stdout, raised, priorFile, priorExists, outputs >>

\* print(f"All versions extracted into {OUTPUT_FILE}")
PrintDone ==
    /\ pc = "print"
    /\ stdout' = Append(stdout, AllExtracted)
    /\ outputs' = Append(outputs, file)
    /\ pc' = "done"
    /\ UNCHANGED << history, run, commits, idx, processed, file, fileExists,
                    isOpen, raised, priorFile, priorExists >>

\* The script is run again in the same, unchanged repository.
Rerun ==
    /\ pc \in {"done", "aborted"}
    /\ run < MaxRuns
    /\ run' = run + 1
    /\ pc' = "repo"
    /\ commits' = <<>>
    /\ idx' = 0
    /\ processed' = <<>>
    /\ stdout' = <<>>
    /\ raised' = "none"
    /\ priorFile' = file
    /\ priorExists' = fileExists
    /\ UNCHANGED << history, file, fileExists, isOpen, outputs >>

Step ==
    \/ OpenRepo
    \/ OpenRepoFail
    \/ ListCommits
    \/ OpenOutput
    \/ OpenOutputFail
    \/ SkipCommit
    \/ WriteRecord
    \/ WriteFail
    \/ CloseOutput
    \/ PrintDone

Next == Step \/ Rerun

Spec == Init /\ [][Next]_vars

\* A started run keeps executing: the program is sequential and blocks
\* nowhere.
FairSpec == Spec /\ WF_vars(Step)

\* ------------------------------------------------- reading the results
\* The lines of a text: the runs of bytes ended by "\n", and an unterminated
\* rest if there is one.
SplitLines(f) ==
    LET ends == {i \in 1..Len(f) : f[i] = 10}
                \cup (IF Len(f) > 0 /\ f[Len(f)] # 10 THEN {Len(f) + 1} ELSE {})
        EndOf(k) == CHOOSE p \in ends : Cardinality({q \in ends : q < p}) = k - 1
        StartOf(k) == IF k = 1 THEN 1 ELSE EndOf(k - 1) + 1
    IN  [k \in 1..Cardinality(ends) |-> SubSeq(f, StartOf(k), EndOf(k) - 1)]

RECURSIVE Lookup(_, _)
Lookup(kv, k) ==
    IF kv = <<>> THEN NoValue
    ELSE IF Head(kv).k = k THEN Head(kv).v
    ELSE Lookup(Tail(kv), k)

\* The value of a key in a line read back as JSON.
Field(line, key) ==
    LET r == JsonLoads(line) IN
    IF r.ok /\ r.val.t = "obj" THEN Lookup(r.val.kv, key) ELSE NoValue

Lines == SplitLines(file)

\* beer.json exists at the commit, decodes and parses; the value parsed.
ParsesAt(c) ==
    /\ c.tree.present
    /\ Decode(c.tree.bytes).ok
    /\ JsonLoads(Decode(c.tree.bytes).text).ok
ParsedAt(c) == JsonLoads(Decode(c.tree.bytes).text).val

LinesOf(f, hash) ==
    {j \in 1..Len(SplitLines(f)) : Field(SplitLines(f)[j], KeyCommit) = JStr(hash)}
SkipsOf(hash) ==
    {j \in 1..Len(stdout) : stdout[j].kind = "skipping" /\ stdout[j].commit = hash}
NumSkips == Cardinality({j \in 1..Len(stdout) : stdout[j].kind = "skipping"})
Completed == \E j \in 1..Len(stdout) : stdout[j] = AllExtracted
Hashes(cs) == [i \in 1..Len(cs) |-> cs[i].hexsha]
Good(cs) == SelectSeq(cs, ParsesAt)
IsPrefix(a, b) == Len(a) <= Len(b) /\ SubSeq(b, 1, Len(a)) = a

\* ------------------------------------------------------------------- C1
\* C1: after a completed run, every commit of the walk whose beer.json
\* exists, decodes and parses has exactly one output line carrying its
\* hash, and that line's data is the value parsed from that commit's blob.
C1_ParsedCommitRecorded ==
    pc = "done" =>
        \A i \in 1..Len(commits) :
            ParsesAt(commits[i]) =>
                /\ Cardinality(LinesOf(file, commits[i].hexsha)) = 1
                /\ \A j \in LinesOf(file, commits[i].hexsha) :
                       Field(Lines[j], KeyData) = ParsedAt(commits[i])

\* Two parsed commits with different contents and a failing one.
C1_Witness ==
    /\ pc = "done"
    /\ \E i, j \in 1..Len(commits) :
           /\ ParsesAt(commits[i]) /\ ParsesAt(commits[j])
           /\ ParsedAt(commits[i]) # ParsedAt(commits[j])
    /\ \E i \in 1..Len(commits) : ~ParsesAt(commits[i])

\* ------------------------------------------------------------------- C2
\* C2: after a completed run, a commit of the walk whose beer.json is
\* absent, undecodable or invalid has no output line, has exactly one
\* "Skipping commit" diagnostic, and the commits after it were processed.
C2_FailedCommitSkipped ==
    pc = "done" =>
        /\ processed = Hashes(commits)
        /\ \A i \in 1..Len(commits) :
               ~ParsesAt(commits[i]) =>
                   /\ LinesOf(file, commits[i].hexsha) = {}
                   /\ Cardinality(SkipsOf(commits[i].hexsha)) = 1

\* Two kinds of failure in one completed run, a parsed commit after a
\* failing one.
C2_Witness ==
    /\ pc = "done"
    /\ \E i, j \in 1..Len(commits) :
           /\ ~ParsesAt(commits[i]) /\ ~ParsesAt(commits[j])
           /\ commits[i].tree.present # commits[j].tree.present
    /\ \E i, j \in 1..Len(commits) :
           i < j /\ ~ParsesAt(commits[i]) /\ ParsesAt(commits[j])

\* ------------------------------------------------------------------- C3
\* C3: lines written plus skip diagnostics equals the number of commits
\* processed so far during the loop, and the printed commit count at the end.
C3_LinesPlusSkips ==
    /\ pc \in {"loop", "print", "done"} =>
           Len(Lines) + NumSkips = idx - 1
    /\ pc = "done" =>
           /\ stdout[1].kind = "found"
           /\ Len(Lines) + NumSkips = stdout[1].n

\* A completed run with lines, skips, and a commit that did not count.
C3_Witness ==
    /\ pc = "done"
    /\ Len(Lines) > 0
    /\ NumSkips > 0
    /\ Len(commits) < Len(history)

\* ------------------------------------------------------------------- C4
\* C4: the output lines are the walk (newest first) with the failing
\* commits removed: line i is the record of the i-th parsed commit.
C4_LinesInWalkOrder ==
    pc = "done" =>
        /\ \A i, j \in 1..Len(commits) :
               i < j => commits[i].committed_datetime > commits[j].committed_datetime
        /\ Len(Lines) = Len(Good(commits))
        /\ \A i \in 1..Len(Lines) :
               /\ Field(Lines[i], KeyCommit) = JStr(Good(commits)[i].hexsha)
               /\ Field(Lines[i], KeyData) = ParsedAt(Good(commits)[i])

\* Two lines around a skipped commit.
C4_Witness ==
    /\ pc = "done"
    /\ Len(commits) = 3
    /\ ParsesAt(commits[1]) /\ ~ParsesAt(commits[2]) /\ ParsesAt(commits[3])
    /\ Len(Lines) = 2

\* ------------------------------------------------------------------- C5
\* C5: every completed run against the unchanged repository leaves the same
\* file, whatever the file held when the run started.
C5_Idempotent ==
    \A i, j \in 1..Len(outputs) : outputs[i] = outputs[j]

\* A second completed run that started over the leftover of an aborted run.
C5_Witness ==
    /\ pc = "done"
    /\ Len(outputs) >= 2
    /\ priorExists
    /\ priorFile # <<>>
    /\ priorFile # file

\* ------------------------------------------------------------------- C6
\* C6: when opening the repository fails the run stops there: the output
\* file is as it was before the run and nothing has been printed.
C6_RepoOpenFailure ==
    raised = "repo" =>
        /\ pc = "aborted"
        /\ file = priorFile
        /\ fileExists = priorExists
        /\ ~isOpen
        /\ commits = <<>>
        /\ processed = <<>>
        /\ stdout = <<>>

\* The repository fails to open over a file left by an earlier run.
C6_Witness ==
    /\ raised = "repo"
    /\ priorExists
    /\ priorFile # <<>>

\* ------------------------------------------------------------------- C7
\* Every line of the file is the record of one of the commits cs.
HoldsOnlyRecordsOf(cs) ==
    \A j \in 1..Len(Lines) :
        \E i \in 1..Len(cs) :
            /\ ParsesAt(cs[i])
            /\ Field(Lines[j], KeyCommit) = JStr(cs[i].hexsha)
            /\ Field(Lines[j], KeyData) = ParsedAt(cs[i])

\* The commits the loop had finished with when the error was raised.
ProcessedBefore ==
    IF raised = "write" THEN SubSeq(commits, 1, idx - 1) ELSE <<>>

AbortsUncaught ==
    /\ pc = "aborted"
    /\ ~isOpen
    /\ ~Completed
    /\ raised = "open" => processed = <<>>
    /\ raised = "write" =>
           /\ idx \in 1..Len(commits)
           /\ processed = Hashes(SubSeq(commits, 1, idx))
           /\ SkipsOf(commits[idx].hexsha) = {}

ScenarioHistory == << Blob(BlobA1), Blob(BlobA2), Blob(BlobBadJson) >>
ObjA(n) == JObj(<< [k |-> <<97>>, v |-> JInt(n)] >>)

\* C8: for the history {"a":1}, {"a":2}, {"a": the output has two lines,
\* {"a":2} of the second commit then {"a":1} of the first, and the tip is
\* skipped with one diagnostic.
C8_Scenario ==
    (history = ScenarioHistory /\ pc = "done") =>
        /\ Len(Lines) = 2
        /\ Field(Lines[1], KeyCommit) = JStr(Hash(2))
        /\ Field(Lines[1], KeyData) = ObjA(2)
        /\ Field(Lines[2], KeyCommit) = JStr(Hash(1))
        /\ Field(Lines[2], KeyData) = ObjA(1)
        /\ NumSkips = 1
        /\ Cardinality(SkipsOf(Hash(3))) = 1
        /\ LinesOf(file, Hash(3)) = {}

C8_Witness == history = ScenarioHistory /\ pc = "done"

\* ------------------------------------------------------------------- C9
\* C9: a started run ends; it takes the commits of the walk one by one in
\* order, each once; it ends without the completion message only on an
\* error outside the try block; the completion message comes after the last
\* commit and after the file is closed.
C9_Terminates ==
    /\ (pc = "repo") ~> (pc \in {"done", "aborted"})
    /\ [](IsPrefix(processed, Hashes(commits)))
    /\ [](pc = "aborted" => raised # "none")
    /\ [](Completed => /\ pc = "done"
                       /\ ~isOpen
                       /\ processed = Hashes(commits))
    /\ [](pc = "done" => Completed)

\* A completed run over a walk with failing and parsed commits.
C9_Witness ==
    /\ pc = "done"
    /\ Completed
    /\ Len(commits) = MaxHistory
    /\ \E i \in 1..Len(commits) : ~ParsesAt(commits[i])
    /\ \E i \in 1..Len(commits) : ParsesAt(commits[i])

\* ------------------------------------------------------------------ C10
\* A whole record: one line, ended by "\n", an object with the three keys.
IsRecordLine(b) ==
    /\ Len(b) > 0
    /\ b[Len(b)] = 10
    /\ Len(SplitLines(b)) = 1
    /\ LET r == JsonLoads(SplitLines(b)[1]) IN
       /\ r.ok
       /\ r.val.t = "obj"
       /\ [i \in 1..Len(r.val.kv) |-> r.val.kv[i].k]
              = << KeyCommit, KeyTimestamp, KeyData >>

\* C10: while the file is open it only grows, by one whole record for a
\* parsed commit and not at all for a skipped commit or any other step.
C10_AppendOnly ==
    [][isOpen =>
         /\ IsPrefix(file, file')
         /\ file' # file =>
                /\ Len(processed') = Len(processed) + 1
                /\ ParsesAt(commits[idx])
                /\ IsRecordLine(SubSeq(file', Len(file) + 1, Len(file')))
         /\ (Len(stdout') > Len(stdout) /\ stdout'[Len(stdout')].kind = "skipping")
                => file' = file
         /\ (pc' = "loop" /\ Len(processed') > Len(processed)
                /\ ParsesAt(commits[idx])) => file' # file
      ]_vars

\* The file holds a record and the loop has skipped a commit since.
C10_Witness ==
    /\ isOpen
    /\ Len(Lines) > 0
    /\ Len(stdout) > 1
    /\ stdout[Len(stdout)].kind = "skipping"
    /\ idx <= Len(commits)

====
